---- MODULE Spec2Model ----
(***************************************************************************)
(* Invoice lifecycle and payment reconciliation of invoflow: the API route *)
(* handlers over the persisted invoices, invoice items, payments and the   *)
(* per-user invoice counter.                                               *)
(*                                                                         *)
(* Money is counted in units of 0.005 (half a cent), so that the 0.01      *)
(* tolerance of the "fully paid" test is two units and amounts closer to   *)
(* the total than the tolerance exist.  Arithmetic on money is exact.      *)
(***************************************************************************)
EXTENDS Integers, Sequences, FiniteSets, TLC

\* ------------------------------------------------------------------ bounds
MaxInvoices == 3
MaxPayments == 2
MaxAmount == 6
PayInvoices == 1
LifeInvoices == 1
LifeAmount == 2
SweepInvoices == 2
NumberingInvoices == 3
DeleteInvoices == 2
ClientInvoices == 1
TenantInvoices == 2
PredictInvoices == 2
DupInvoices == 2
RaceInvoices == 1
CreateRaceInvoices == 3
UpdateRaceInvoices == 1
ReminderRaceInvoices == 2
SameInvoices == 2
MaxReminders == 1
MaxNow == 2
MaxDate == 2

\* ------------------------------------------------------- program constants
Tolerance == 2
PadWidth == 3
Base == 10
DuplicateDueDays == 30
MaxTaxRate == 100
HoursPerDay == 24
DefaultBufferDays == 3
DefaultConfidence == 30
MaxHistory == 20
MaxHistoryBonus == 20
MaxConfidence == 95
MediumRiskDays == 14
LargeInvoiceDays == 3
UnitsPerOne == 200
WindowDays == 30
MinSimilarity == 30
DuplicateSimilarity == 75
MaxSimilar == 5

Users == {"u1", "u2"}
Ids == 1..MaxInvoices
Statuses == {"draft", "sent", "paid", "overdue", "cancelled"}
CreateStatuses == {"draft", "sent"}
Quantities == {1, 2}
Dates == 1..MaxDate
ClientIds == {"c1", "c2", "c3"}
Procs == {"p1", "p2"}

None == "none"
NoInvoice == [exists |-> FALSE]
\* the value of new Date(text) for a text that is no date (not a day number)
InvalidDate == -1
Idle == [pc |-> "idle"]

VARIABLES invoices, payments, invoiceCounter, nextId, now, last, clients, inflight,
          paidAt

vars == <<invoices, payments, invoiceCounter, nextId, now, last, clients, inflight, paidAt>>

\* ----------------------------------------------------------------- helpers
RECURSIVE SumSeq(_)
SumSeq(s) == IF s = <<>> THEN 0 ELSE Head(s) + SumSeq(Tail(s))

Abs(x) == IF x < 0 THEN -x ELSE x

Exists(id) == invoices[id].exists

\* prisma.payment.aggregate({ where: { invoiceId }, _sum: { amount } })
PaidSum(id) == SumSeq(payments[id])

BalanceDue(id) == invoices[id].total - PaidSum(id)

\* String(n): the decimal digits of n, most significant first
RECURSIVE DigitsOf(_)
DigitsOf(n) == IF n < Base THEN <<n>> ELSE Append(DigitsOf(n \div Base), n % Base)

\* s.padStart(width, "0")
RECURSIVE PadStart(_, _)
PadStart(s, width) == IF Len(s) >= width THEN s ELSE PadStart(<<0>> \o s, width)

\* `INV-${String(n).padStart(3, "0")}`: the digit string after the fixed prefix
FormatNumber(n) == PadStart(DigitsOf(n), PadWidth)

\* parseInt(number.match(/INV-(\d+)/)[1])
RECURSIVE ParseNumber(_)
ParseNumber(s) == IF s = <<>> THEN 0 ELSE ParseNumber(SubSeq(s, 1, Len(s) - 1)) * Base + s[Len(s)]

\* items.map(item => ({ ...item, amount: item.quantity * item.rate }))
ItemAmount(quantity, rate) == quantity * rate

WithAmounts(items) ==
    [k \in 1..Len(items) |->
        [description |-> items[k].description,
         quantity |-> items[k].quantity, rate |-> items[k].rate,
         amount |-> ItemAmount(items[k].quantity, items[k].rate)]]

\* items.reduce((sum, item) => sum + item.amount, 0)
Subtotal(items) == SumSeq([k \in 1..Len(items) |-> items[k].amount])

\* subtotal * (taxRate / 100)
Tax(subtotal, taxRate) == (subtotal * taxRate) \div 100

Request(op, user, id, amount, code) ==
    [op |-> op, user |-> user, id |-> id, amount |-> amount, code |-> code,
     made |-> 0, count |-> 0, prior |-> -1, set |-> {}, client |-> None,
     body |-> None, type |-> None, date |-> 0, items |-> <<>>]

\* -------------------------------------------------------------------- init
Init ==
    /\ invoices = [id \in Ids |-> NoInvoice]
    /\ payments = [id \in Ids |-> <<>>]
    /\ paidAt = [id \in Ids |-> <<>>]
    /\ invoiceCounter = [u \in Users |-> 0]
    /\ nextId = 1
    /\ now = 0
    /\ last = Request("init", None, 0, 0, 0)
    /\ clients = [c \in ClientIds |-> IF c = "c1" THEN "u1" ELSE IF c = "c2" THEN "u2" ELSE None]
    /\ inflight = [p \in Procs |-> Idle]

\* ----------------------------------------------------------------- actions
\* prisma.invoice.findFirst({ where: { userId }, orderBy: { createdAt: "desc" } })
LastInvoiceOf(u) ==
    LET mine == {id \in Ids : Exists(id) /\ invoices[id].userId = u}
    IN IF mine = {} THEN 0 ELSE CHOOSE id \in mine : \A o \in mine : o <= id

NextNumber(u) ==
    IF LastInvoiceOf(u) = 0 THEN 1 ELSE ParseNumber(invoices[LastInvoiceOf(u)].number) + 1

\* the store's answer to an insert of an invoice number the user already has:
\* no unique index over invoice numbers refuses it
NumberRefused(u, number) == FALSE

\* z.number().min(0).max(100)
ValidTaxRate(taxRate) == taxRate >= 0 /\ taxRate <= MaxTaxRate

\* the validated request body of POST /api/invoices
InvoiceData(c, issue, due, taxRate, status, itemInputs, notes, terms) ==
    [clientId |-> c, issueDate |-> issue, dueDate |-> due, taxRate |-> taxRate,
     status |-> status, items |-> itemInputs, notes |-> notes, terms |-> terms]

\* data.notes || null
OrNull(text) == IF text = "" THEN None ELSE text

\* the foreign key of Invoice.clientId: an invoice row naming a client that
\* does not exist is refused by the store
ClientMissing(c) == clients[c] = None

\* new Date(text) of a text that is no date: the store refuses the value
DateRefused(date) == date = InvalidDate

\* POST /api/invoices
CreateInvoice(u, data) ==
    IF ~ValidTaxRate(data.taxRate) \/ data.items = <<>>
    THEN /\ last' = Request("createInvoice", u, 0, 0, 400)
         /\ UNCHANGED <<invoices, payments, paidAt, invoiceCounter, nextId, now, clients, inflight>>
    ELSE IF NumberRefused(u, FormatNumber(NextNumber(u)))
    THEN /\ last' = Request("createInvoice", u, 0, 0, 409)
         /\ UNCHANGED <<invoices, payments, paidAt, invoiceCounter, nextId, now, clients, inflight>>
    ELSE IF \/ ClientMissing(data.clientId)
            \/ DateRefused(data.issueDate) \/ DateRefused(data.dueDate)
    THEN /\ last' = Request("createInvoice", u, 0, 0, 500)
         /\ UNCHANGED <<invoices, payments, paidAt, invoiceCounter, nextId, now, clients, inflight>>
    ELSE /\ nextId <= MaxInvoices
         /\ LET items == WithAmounts(data.items)
                subtotal == Subtotal(items)
                tax == Tax(subtotal, data.taxRate)
            IN invoices' = [invoices EXCEPT ![nextId] =
                   [exists |-> TRUE, userId |-> u, clientId |-> data.clientId,
                    number |-> FormatNumber(NextNumber(u)), status |-> data.status,
                    issueDate |-> data.issueDate, dueDate |-> data.dueDate,
                    items |-> items, subtotal |-> subtotal,
                    taxRate |-> data.taxRate, tax |-> tax, total |-> subtotal + tax,
                    notes |-> OrNull(data.notes), terms |-> OrNull(data.terms),
                    reminderCount |-> 0]]
         /\ nextId' = nextId + 1
         /\ last' = [Request("createInvoice", u, 0, 0, 201) EXCEPT !.made = nextId]
         /\ UNCHANGED <<payments, paidAt, invoiceCounter, now, clients, inflight>>

\* An update request body: `set` names the optional fields that are present
Patch(set, status, taxRate, itemInputs, clientId, dueDate) ==
    [set |-> set, status |-> status, taxRate |-> taxRate, items |-> itemInputs,
     clientId |-> clientId, dueDate |-> dueDate]

\* the fields of updateData that do not depend on items or taxRate
ApplyPlainFields(inv, p) ==
    [inv EXCEPT
        !.clientId = IF "clientId" \in p.set THEN p.clientId ELSE @,
        !.issueDate = IF "issueDate" \in p.set THEN p.issueDate ELSE @,
        !.dueDate = IF "dueDate" \in p.set THEN p.dueDate ELSE @,
        !.notes = IF "notes" \in p.set THEN p.notes ELSE @,
        !.terms = IF "terms" \in p.set THEN p.terms ELSE @,
        !.status = IF "status" \in p.set THEN p.status ELSE @]

\* if (data.items) { ... recalculate, replace the items ... }
ApplyItems(inv, p) ==
    LET taxRate == IF "taxRate" \in p.set THEN p.taxRate ELSE inv.taxRate
        items == WithAmounts(p.items)
        subtotal == Subtotal(items)
        tax == Tax(subtotal, taxRate)
    IN [inv EXCEPT !.items = items, !.subtotal = subtotal, !.tax = tax,
                   !.taxRate = taxRate, !.total = subtotal + tax]

\* if (data.taxRate !== undefined && !data.items) { ... }
ApplyTaxRate(inv, p) ==
    LET tax == Tax(inv.subtotal, p.taxRate)
    IN [inv EXCEPT !.taxRate = p.taxRate, !.tax = tax, !.total = inv.subtotal + tax]

UpdatedInvoice(inv, p) ==
    IF "items" \in p.set THEN ApplyItems(ApplyPlainFields(inv, p), p)
    ELSE IF "taxRate" \in p.set THEN ApplyTaxRate(ApplyPlainFields(inv, p), p)
    ELSE ApplyPlainFields(inv, p)

\* prisma.invoice.update throws: a client that does not exist, a date that is
\* no date
UpdateRefused(p) ==
    \/ "clientId" \in p.set /\ ClientMissing(p.clientId)
    \/ "issueDate" \in p.set /\ DateRefused(p.issueDate)
    \/ "dueDate" \in p.set /\ DateRefused(p.dueDate)

\* findFirst({ where: { id, userId: user.id } })
OwnedByAnyone(u, id) == Exists(id)

Owned(u, id) == Exists(id) /\ invoices[id].userId = u

\* GET /api/invoices/[id]
GetInvoice(u, id) ==
    /\ last' = IF ~Owned(u, id)
               THEN Request("getInvoice", u, id, 0, 404)
               ELSE [Request("getInvoice", u, id, 0, 200) EXCEPT
                        !.body = [invoice |-> invoices[id], payments |-> payments[id]]]
    /\ UNCHANGED <<invoices, payments, paidAt, invoiceCounter, nextId, now, clients, inflight>>

\* GET /api/invoices/[id]/payments
ListPayments(u, id) ==
    /\ last' = IF ~Owned(u, id)
               THEN Request("listPayments", u, id, 0, 404)
               ELSE [Request("listPayments", u, id, 0, 200) EXCEPT !.body = payments[id]]
    /\ UNCHANGED <<invoices, payments, paidAt, invoiceCounter, nextId, now, clients, inflight>>

\* PUT /api/invoices/[id]
UpdateInvoice(u, id, p) ==
    /\ IF ~Owned(u, id)
       THEN /\ last' = Request("updateInvoice", u, id, 0, 404)
            /\ UNCHANGED invoices
       ELSE IF "taxRate" \in p.set /\ ~ValidTaxRate(p.taxRate)
       THEN /\ last' = Request("updateInvoice", u, id, 0, 400)
            /\ UNCHANGED invoices
       ELSE IF UpdateRefused(p)
       THEN /\ last' = [Request("updateInvoice", u, id, 0, 500) EXCEPT !.set = p.set]
            /\ invoices' = IF "items" \in p.set
                            THEN [invoices EXCEPT ![id].items = <<>>]
                            ELSE invoices
       ELSE /\ invoices' = [invoices EXCEPT ![id] = UpdatedInvoice(@, p)]
            /\ last' = [Request("updateInvoice", u, id, 0, 200) EXCEPT !.set = p.set]
    /\ UNCHANGED <<payments, paidAt, invoiceCounter, nextId, now, clients, inflight>>

\* if (totalPaid > invoice.total) with totalPaid = (sum of payments || 0) + amount
ExceedsBalanceIgnoringPaid(id, amount) == amount > invoices[id].total

ExceedsBalance(id, amount) == PaidSum(id) + amount > invoices[id].total

\* if (Math.abs(totalPaid - invoice.total) < 0.01)
FullyPaidFlipped(totalPaid, total) == Abs(totalPaid - total) > Tolerance

FullyPaid(totalPaid, total) == Abs(totalPaid - total) < Tolerance

\* POST /api/invoices/[id]/payments
RecordPayment(u, id, amount) ==
    LET totalPaid == PaidSum(id) + amount
    IN /\ IF ~Owned(u, id)
          THEN /\ last' = Request("recordPayment", u, id, amount, 404)
               /\ UNCHANGED <<invoices, payments, paidAt>>
          ELSE IF amount <= 0 \/ ExceedsBalance(id, amount)
          THEN /\ last' = Request("recordPayment", u, id, amount, 400)
               /\ UNCHANGED <<invoices, payments, paidAt>>
          ELSE /\ payments' = [payments EXCEPT ![id] = Append(@, amount)]
               /\ paidAt' = [paidAt EXCEPT ![id] = Append(@, now)]
               /\ invoices' =
                    IF FullyPaid(totalPaid, invoices[id].total)
                    THEN [invoices EXCEPT ![id].status = "paid"]
                    ELSE invoices
               /\ last' = Request("recordPayment", u, id, amount, 201)
       /\ UNCHANGED <<invoiceCounter, nextId, now, clients, inflight>>

\* the three 400 answers: already paid, cancelled, balanceDue <= 0
OnlineRejectedStrict(id) ==
    invoices[id].status \in {"paid", "cancelled"} \/ BalanceDue(id) < 0

OnlineRejected(id) ==
    invoices[id].status \in {"paid", "cancelled"} \/ BalanceDue(id) <= 0

\* amount: balanceDue
OnlineAmountWholeTotal(id) == invoices[id].total

OnlineAmount(id) == BalanceDue(id)

\* POST /api/invoices/[id]/pay (public, no session)
ProcessOnlinePayment(id) ==
    /\ IF ~Exists(id)
       THEN /\ last' = Request("processOnlinePayment", None, id, 0, 404)
            /\ UNCHANGED <<invoices, payments, paidAt>>
       ELSE IF OnlineRejected(id)
       THEN /\ last' = Request("processOnlinePayment", None, id, 0, 400)
            /\ UNCHANGED <<invoices, payments, paidAt>>
       ELSE /\ payments' = [payments EXCEPT ![id] = Append(@, OnlineAmount(id))]
            /\ paidAt' = [paidAt EXCEPT ![id] = Append(@, now)]
            /\ invoices' = [invoices EXCEPT ![id].status = "paid"]
            /\ last' = Request("processOnlinePayment", None, id, OnlineAmount(id), 200)
    /\ UNCHANGED <<invoiceCounter, nextId, now, clients, inflight>>

\* ------------------------------- updateInvoice, one awaited store call a step
\* the columns of the invoice row that PUT hands to prisma.invoice.update
Written(p) ==
    (p.set \cap {"clientId", "issueDate", "dueDate", "notes", "terms", "status"})
      \cup (IF "items" \in p.set THEN {"subtotal", "tax", "taxRate", "total"}
            ELSE IF "taxRate" \in p.set THEN {"taxRate", "tax", "total"}
            ELSE {})

\* the row after prisma.invoice.update: updateData, computed from the row read
\* by findFirst, over the row as it is now; items: { create: items } adds the
\* new items to those the invoice has
RowAfterUpdate(row, existing, p) ==
    LET computed == UpdatedInvoice(existing, p)
    IN [f \in DOMAIN row |->
           IF f \in Written(p) THEN computed[f]
           ELSE IF f = "items" /\ "items" \in p.set THEN row.items \o computed.items
           ELSE row[f]]

\* the request in flight at `p` returns `code`
UpdateAnswered(p, code) ==
    /\ inflight' = [inflight EXCEPT ![p] = Idle]
    /\ last' = [Request("updateInvoice", inflight[p].user, inflight[p].id, 0, code)
                   EXCEPT !.set = inflight[p].patch.set]

\* PUT /api/invoices/[id] up to its first store write: findFirst by id and
\* user, then the validation of the body
UpdateBegin(p, u, id, patch) ==
    /\ inflight[p] = Idle
    /\ IF ~Owned(u, id)
       THEN /\ last' = Request("updateInvoice", u, id, 0, 404)
            /\ UNCHANGED inflight
       ELSE IF "taxRate" \in patch.set /\ ~ValidTaxRate(patch.taxRate)
       THEN /\ last' = Request("updateInvoice", u, id, 0, 400)
            /\ UNCHANGED inflight
       ELSE /\ inflight' = [inflight EXCEPT ![p] =
                   [pc |-> "update", user |-> u, id |-> id, patch |-> patch,
                    existing |-> invoices[id],
                    at |-> IF "items" \in patch.set THEN "deleteItems" ELSE "write"]]
            /\ UNCHANGED last
    /\ UNCHANGED <<invoices, payments, paidAt, invoiceCounter, nextId, now, clients>>

\* prisma.invoiceItem.deleteMany({ where: { invoiceId: id } })
UpdateDeleteItems(p) ==
    /\ inflight[p].pc = "update"
    /\ inflight[p].at = "deleteItems"
    /\ invoices' = IF Exists(inflight[p].id)
                   THEN [invoices EXCEPT ![inflight[p].id].items = <<>>]
                   ELSE invoices
    /\ inflight' = [inflight EXCEPT ![p].at = "write"]
    /\ UNCHANGED <<payments, paidAt, invoiceCounter, nextId, now, clients, last>>

\* prisma.invoice.update({ where: { id }, data: ... }), then the response
UpdateWrite(p) ==
    /\ inflight[p].pc = "update"
    /\ inflight[p].at = "write"
    /\ LET id == inflight[p].id
       IN IF ~Exists(id)
          THEN /\ UpdateAnswered(p, 404)
               /\ UNCHANGED invoices
          ELSE IF UpdateRefused(inflight[p].patch)
          THEN /\ UpdateAnswered(p, 500)
               /\ UNCHANGED invoices
          ELSE /\ invoices' = [invoices EXCEPT ![id] =
                      RowAfterUpdate(@, inflight[p].existing, inflight[p].patch)]
               /\ UpdateAnswered(p, 200)
    /\ UNCHANGED <<payments, paidAt, invoiceCounter, nextId, now, clients>>

\* ------------------------------- createInvoice, one awaited store call a step
\* POST /api/invoices up to prisma.invoice.create: the validation of the body,
\* findFirst of the user's last invoice, the number made from it
CreateBegin(p, u, data) ==
    /\ inflight[p] = Idle
    /\ IF ~ValidTaxRate(data.taxRate) \/ data.items = <<>>
       THEN /\ last' = Request("createInvoice", u, 0, 0, 400)
            /\ UNCHANGED inflight
       ELSE /\ inflight' = [inflight EXCEPT ![p] =
                   [pc |-> "create", user |-> u, data |-> data,
                    number |-> FormatNumber(NextNumber(u))]]
            /\ UNCHANGED last
    /\ UNCHANGED <<invoices, payments, paidAt, invoiceCounter, nextId, now, clients>>

\* prisma.invoice.create with the number made before, then 201
CreateInsert(p) ==
    /\ inflight[p].pc = "create"
    /\ LET u == inflight[p].user
           data == inflight[p].data
           answer(code) == Request("createInvoice", u, 0, 0, code)
       IN IF NumberRefused(u, inflight[p].number)
          THEN /\ last' = answer(409)
               /\ UNCHANGED <<invoices, nextId>>
          ELSE IF \/ ClientMissing(data.clientId)
                  \/ DateRefused(data.issueDate) \/ DateRefused(data.dueDate)
          THEN /\ last' = answer(500)
               /\ UNCHANGED <<invoices, nextId>>
          ELSE /\ nextId <= MaxInvoices
               /\ LET items == WithAmounts(data.items)
                      subtotal == Subtotal(items)
                      tax == Tax(subtotal, data.taxRate)
                  IN invoices' = [invoices EXCEPT ![nextId] =
                         [exists |-> TRUE, userId |-> u, clientId |-> data.clientId,
                          number |-> inflight[p].number, status |-> data.status,
                          issueDate |-> data.issueDate, dueDate |-> data.dueDate,
                          items |-> items, subtotal |-> subtotal,
                          taxRate |-> data.taxRate, tax |-> tax, total |-> subtotal + tax,
                          notes |-> OrNull(data.notes), terms |-> OrNull(data.terms),
                          reminderCount |-> 0]]
               /\ nextId' = nextId + 1
               /\ last' = [answer(201) EXCEPT !.made = nextId]
    /\ inflight' = [inflight EXCEPT ![p] = Idle]
    /\ UNCHANGED <<payments, paidAt, invoiceCounter, now, clients>>

\* ------------------------------------- payments, one awaited store call a step
\* the request in flight at `p` returns `code`
PaymentAnswered(p, code) ==
    /\ inflight' = [inflight EXCEPT ![p] = Idle]
    /\ last' = Request("recordPayment", inflight[p].user, inflight[p].id,
                       inflight[p].amount, code)

\* POST /api/invoices/[id]/payments up to its second store call: findFirst by
\* id and user, then the validation of the body
PaymentBegin(p, u, id, amount) ==
    /\ inflight[p] = Idle
    /\ IF ~Owned(u, id)
       THEN /\ last' = Request("recordPayment", u, id, amount, 404)
            /\ UNCHANGED inflight
       ELSE IF amount <= 0
       THEN /\ last' = Request("recordPayment", u, id, amount, 400)
            /\ UNCHANGED inflight
       ELSE /\ inflight' = [inflight EXCEPT ![p] =
                   [pc |-> "pay", user |-> u, id |-> id, amount |-> amount,
                    total |-> invoices[id].total, at |-> "aggregate", read |-> 0]]
            /\ UNCHANGED last
    /\ UNCHANGED <<invoices, payments, paidAt, invoiceCounter, nextId, now, clients>>

\* prisma.payment.aggregate({ where: { invoiceId: id }, _sum: { amount: true } })
PaymentAggregate(p) ==
    /\ inflight[p].pc = "pay"
    /\ inflight[p].at = "aggregate"
    /\ inflight' = [inflight EXCEPT ![p].read = PaidSum(inflight[p].id),
                                    ![p].at = "create"]
    /\ UNCHANGED <<invoices, payments, paidAt, invoiceCounter, nextId, now, clients, last>>

\* const totalPaid = (existingPayments._sum.amount || 0) + data.amount
TotalPaidAtWrite(p) == PaidSum(inflight[p].id) + inflight[p].amount

TotalPaid(p) == inflight[p].read + inflight[p].amount

\* if (totalPaid > invoice.total) return badRequest; prisma.payment.create
PaymentCreate(p) ==
    /\ inflight[p].pc = "pay"
    /\ inflight[p].at = "create"
    /\ IF TotalPaid(p) > inflight[p].total
       THEN /\ PaymentAnswered(p, 400)
            /\ UNCHANGED <<payments, paidAt>>
       ELSE /\ payments' = [payments EXCEPT ![inflight[p].id] = Append(@, inflight[p].amount)]
            /\ paidAt' = [paidAt EXCEPT ![inflight[p].id] = Append(@, now)]
            /\ IF FullyPaid(TotalPaid(p), inflight[p].total)
               THEN /\ inflight' = [inflight EXCEPT ![p].at = "markPaid"]
                    /\ UNCHANGED last
               ELSE PaymentAnswered(p, 201)
    /\ UNCHANGED <<invoices, invoiceCounter, nextId, now, clients>>

\* prisma.invoice.update({ where: { id }, data: { status: "paid" } }), then 201
PaymentMarkPaid(p) ==
    /\ inflight[p].pc = "pay"
    /\ inflight[p].at = "markPaid"
    /\ invoices' = [invoices EXCEPT ![inflight[p].id].status = "paid"]
    /\ PaymentAnswered(p, 201)
    /\ UNCHANGED <<payments, paidAt, invoiceCounter, nextId, now, clients>>

\* POST /api/invoices/[id]/pay up to payment.create: findUnique with the
\* invoice's payments, then the three 400 answers
OnlineBegin(p, id) ==
    /\ inflight[p] = Idle
    /\ IF ~Exists(id)
       THEN /\ last' = Request("processOnlinePayment", None, id, 0, 404)
            /\ UNCHANGED inflight
       ELSE IF OnlineRejected(id)
       THEN /\ last' = Request("processOnlinePayment", None, id, 0, 400)
            /\ UNCHANGED inflight
       ELSE /\ inflight' = [inflight EXCEPT ![p] =
                   [pc |-> "online", id |-> id, amount |-> OnlineAmount(id),
                    at |-> "create"]]
            /\ UNCHANGED last
    /\ UNCHANGED <<invoices, payments, paidAt, invoiceCounter, nextId, now, clients>>

\* prisma.payment.create({ data: { invoiceId: id, amount: balanceDue, ... } })
OnlineCreate(p) ==
    /\ inflight[p].pc = "online"
    /\ inflight[p].at = "create"
    /\ payments' = [payments EXCEPT ![inflight[p].id] = Append(@, inflight[p].amount)]
    /\ paidAt' = [paidAt EXCEPT ![inflight[p].id] = Append(@, now)]
    /\ inflight' = [inflight EXCEPT ![p].at = "markPaid"]
    /\ UNCHANGED <<invoices, invoiceCounter, nextId, now, clients, last>>

\* prisma.invoice.update({ where: { id }, data: { status: "paid" } }), then 200
OnlineMarkPaid(p) ==
    /\ inflight[p].pc = "online"
    /\ inflight[p].at = "markPaid"
    /\ invoices' = [invoices EXCEPT ![inflight[p].id].status = "paid"]
    /\ inflight' = [inflight EXCEPT ![p] = Idle]
    /\ last' = Request("processOnlinePayment", None, inflight[p].id,
                       inflight[p].amount, 200)
    /\ UNCHANGED <<payments, paidAt, invoiceCounter, nextId, now, clients>>

\* if (invoice.status !== "draft" && invoice.status !== "sent") return badRequest
SendableOrOverdue(status) == status \in {"draft", "sent", "overdue"}

Sendable(status) == status \in {"draft", "sent"}

\* POST /api/invoices/[id]/send
SendInvoice(u, id) ==
    /\ IF ~Owned(u, id)
       THEN /\ last' = Request("sendInvoice", u, id, 0, 404)
            /\ UNCHANGED invoices
       ELSE IF ~Sendable(invoices[id].status)
       THEN /\ last' = Request("sendInvoice", u, id, 0, 400)
            /\ UNCHANGED invoices
       ELSE /\ invoices' = [invoices EXCEPT ![id].status = "sent"]
            /\ last' = Request("sendInvoice", u, id, 0, 200)
    /\ UNCHANGED <<payments, paidAt, invoiceCounter, nextId, now, clients, inflight>>

\* if (invoice.status !== "sent" && invoice.status !== "overdue") return badRequest
RemindableOrDraft(status) == status \in {"draft", "sent", "overdue"}

Remindable(status) == status \in {"sent", "overdue"}

\* POST /api/invoices/[id]/remind
Remind(u, id) ==
    /\ IF ~Owned(u, id)
       THEN /\ last' = Request("remind", u, id, 0, 404)
            /\ UNCHANGED invoices
       ELSE IF ~Remindable(invoices[id].status)
       THEN /\ last' = Request("remind", u, id, 0, 400)
            /\ UNCHANGED invoices
       ELSE /\ invoices' = [invoices EXCEPT ![id].reminderCount = @ + 1]
            /\ last' = Request("remind", u, id, 0, 200)
    /\ UNCHANGED <<payments, paidAt, invoiceCounter, nextId, now, clients, inflight>>

\* POST /api/invoices/[id]/send-email, body.type in invoice | reminder | confirmation
SendEmail(u, id, type) ==
    LET answer(code) == [Request("sendEmail", u, id, 0, code) EXCEPT !.type = type]
    IN /\ IF ~Owned(u, id)
          THEN /\ last' = answer(404)
               /\ UNCHANGED invoices
          ELSE IF type = "reminder"
          THEN IF ~Remindable(invoices[id].status)
               THEN /\ last' = answer(400)
                    /\ UNCHANGED invoices
               ELSE /\ invoices' = [invoices EXCEPT ![id].reminderCount = @ + 1]
                    /\ last' = answer(200)
          ELSE IF type = "confirmation"
          THEN /\ last' = answer(IF payments[id] = <<>> THEN 400 ELSE 200)
               /\ UNCHANGED invoices
          ELSE IF ~Sendable(invoices[id].status)
               THEN /\ last' = answer(400)
                    /\ UNCHANGED invoices
               ELSE /\ invoices' = [invoices EXCEPT ![id].status = "sent"]
                    /\ last' = answer(200)
       /\ UNCHANGED <<payments, paidAt, invoiceCounter, nextId, now, clients, inflight>>

\* updateMany({ where: { userId, status: "sent", dueDate: { lt: now } } })
SweepMatchesAnyOpen(u, t) ==
    {id \in Ids : Owned(u, id) /\ invoices[id].status \in {"sent", "overdue"}
                                /\ invoices[id].dueDate < t}

SweepMatchesUpTo(u, t) ==
    {id \in Ids : Owned(u, id) /\ invoices[id].status = "sent" /\ invoices[id].dueDate <= t}

SweepMatches(u, t) ==
    {id \in Ids : Owned(u, id) /\ invoices[id].status = "sent" /\ invoices[id].dueDate < t}

\* checkOverdueInvoices(userId) behind POST /api/invoices/check-overdue
SweepOverdue(u) ==
    /\ invoices' = [id \in Ids |->
          IF id \in SweepMatches(u, now)
          THEN [invoices[id] EXCEPT !.status = "overdue"]
          ELSE invoices[id]]
    /\ last' = [Request("sweepOverdue", u, 0, 0, 200) EXCEPT
                   !.count = Cardinality(SweepMatches(u, now)),
                   !.prior = IF last.op = "sweepOverdue" /\ last.user = u
                             THEN last.count ELSE -1]
    /\ UNCHANGED <<payments, paidAt, invoiceCounter, nextId, now, clients, inflight>>

\* the clock consulted by new Date()
Tick ==
    /\ now < MaxNow
    /\ now' = now + 1
    /\ last' = Request("tick", None, 0, 0, 0)
    /\ UNCHANGED <<invoices, payments, paidAt, invoiceCounter, nextId, clients, inflight>>

\* DELETE /api/invoices/[id]
DeleteInvoice(u, id) ==
    /\ IF ~Owned(u, id)
       THEN /\ last' = Request("deleteInvoice", u, id, 0, 404)
            /\ UNCHANGED <<invoices, payments, paidAt>>
       ELSE /\ payments' = [payments EXCEPT ![id] = <<>>]
            /\ paidAt' = [paidAt EXCEPT ![id] = <<>>]
            /\ invoices' = [invoices EXCEPT ![id] = NoInvoice]
            /\ last' = Request("deleteInvoice", u, id, 0, 200)
    /\ UNCHANGED <<invoiceCounter, nextId, now, clients, inflight>>

\* ------------------------------------ reminders, one awaited store call a step
\* POST /api/invoices/[id]/remind and POST /api/invoices/[id]/send-email of type
\* reminder up to prisma.invoice.update: findFirst by id and user, the status
\* guard; `via` is the route asked
ReminderBegin(p, u, id, via) ==
    /\ inflight[p] = Idle
    /\ LET answer(code) ==
               [Request(via, u, id, 0, code) EXCEPT
                   !.type = IF via = "sendEmail" THEN "reminder" ELSE None]
       IN IF ~Owned(u, id)
          THEN /\ last' = answer(404)
               /\ UNCHANGED inflight
          ELSE IF ~Remindable(invoices[id].status)
          THEN /\ last' = answer(400)
               /\ UNCHANGED inflight
          ELSE /\ inflight' = [inflight EXCEPT ![p] =
                      [pc |-> "reminder", user |-> u, id |-> id, via |-> via,
                       reminderCount |-> invoices[id].reminderCount]]
               /\ UNCHANGED last
    /\ UNCHANGED <<invoices, payments, paidAt, invoiceCounter, nextId, now, clients>>

\* data: { reminderCount: invoice.reminderCount + 1 }
NextReminderCount(p) == inflight[p].reminderCount + 1

\* prisma.invoice.update({ where: { id }, data: { reminderCount, lastRemindedAt } }),
\* then the response
ReminderWrite(p) ==
    /\ inflight[p].pc = "reminder"
    /\ LET id == inflight[p].id
           answer(code) ==
               [Request(inflight[p].via, inflight[p].user, id, 0, code) EXCEPT
                   !.type = IF inflight[p].via = "sendEmail" THEN "reminder" ELSE None]
       IN IF ~Exists(id)
          THEN /\ last' = answer(404)
               /\ UNCHANGED invoices
          ELSE /\ invoices' = [invoices EXCEPT ![id].reminderCount = NextReminderCount(p)]
               /\ last' = answer(200)
    /\ inflight' = [inflight EXCEPT ![p] = Idle]
    /\ UNCHANGED <<payments, paidAt, invoiceCounter, nextId, now, clients>>

\* POST /api/clients: `valid` is the outcome of createClientSchema.safeParse,
\* c the id the store gives the new row
CreateClient(u, c, valid) ==
    /\ IF ~valid
       THEN /\ last' = Request("createClient", u, 0, 0, 400)
            /\ UNCHANGED clients
       ELSE /\ clients[c] = None
            /\ clients' = [clients EXCEPT ![c] = u]
            /\ last' = [Request("createClient", u, 0, 0, 201) EXCEPT !.client = c]
    /\ UNCHANGED <<invoices, payments, paidAt, invoiceCounter, nextId, now, inflight>>

\* existing._count.invoices > 0
HasOpenInvoices(c) ==
    \E id \in Ids : /\ Exists(id) /\ invoices[id].clientId = c
                     /\ invoices[id].status \notin {"paid", "cancelled"}

HasInvoices(c) == \E id \in Ids : Exists(id) /\ invoices[id].clientId = c

\* DELETE /api/clients/[id]
DeleteClient(u, c) ==
    /\ IF clients[c] # u
       THEN /\ last' = [Request("deleteClient", u, 0, 0, 404) EXCEPT !.client = c]
            /\ UNCHANGED clients
       ELSE IF HasInvoices(c)
       THEN /\ last' = [Request("deleteClient", u, 0, 0, 400) EXCEPT !.client = c]
            /\ UNCHANGED clients
       ELSE /\ clients' = [clients EXCEPT ![c] = None]
            /\ last' = [Request("deleteClient", u, 0, 0, 200) EXCEPT !.client = c]
    /\ UNCHANGED <<invoices, payments, paidAt, invoiceCounter, nextId, now, inflight>>

\* ------------------------------------------------------- dates of the host
\* A Date is an instant, counted in hours; the stored day numbers (issueDate,
\* dueDate, paidAt, now) are the instants of their UTC midnights.  The host's
\* time zone gives the local clock that getDate and setDate read and write:
\* its offset from UTC in hours, before and from the instant `change` on.
DstStart == 79
Utc == [name |-> "UTC", before |-> 0, after |-> 0, change |-> DstStart]
Eastern == [name |-> "America/New_York", before |-> -5, after |-> -4, change |-> DstStart]
Zones == {Utc, Eastern}

Instant(day) == day * HoursPerDay

LocalOffset(zone, t) == IF t < zone.change THEN zone.before ELSE zone.after

\* the instant whose local clock reading in `zone` is `wall`
WallToUtc(zone, wall) ==
    IF wall - zone.before < zone.change THEN wall - zone.before ELSE wall - zone.after

\* d.setDate(d.getDate() + days): the same local time of day, `days` later
AddLocalDays(zone, t, days) ==
    WallToUtc(zone, t + LocalOffset(zone, t) + days * HoursPerDay)

\* d.toISOString().split("T")[0]: the UTC day of the instant
IsoDate(t) == t \div HoursPerDay

\* ----------------------------------------------------- payment prediction
Min(a, b) == IF a < b THEN a ELSE b
Max(a, b) == IF a > b THEN a ELSE b

\* Math.round(num / den) for num >= 0, den > 0
RoundDiv(num, den) == (2 * num + den) \div (2 * den)

\* findMany({ where: { userId, clientId, status: "paid" } })
PaidInvoicesOf(u, c) ==
    {id \in Ids : /\ Exists(id) /\ invoices[id].userId = u
                  /\ invoices[id].clientId = c /\ invoices[id].status = "paid"}

\* orderBy: { issueDate: "desc" }, take: 20 -- every order the store may
\* give to invoices of one issueDate
HistoryOrders(u, c) ==
    LET ids == PaidInvoicesOf(u, c)
        n == Min(Cardinality(ids), MaxHistory)
    IN {h \in [1..n -> ids] :
          /\ \A i, j \in 1..n : i < j =>
                 (h[i] # h[j] /\ invoices[h[i]].issueDate >= invoices[h[j]].issueDate)
          /\ \A o \in ids : (\A i \in 1..n : h[i] # o) =>
                 \A i \in 1..n : invoices[h[i]].issueDate >= invoices[o].issueDate}

\* payments: { orderBy: { paidAt: "asc" }, take: 1 }
FirstPaidAt(id) ==
    CHOOSE t \in {paidAt[id][k] : k \in 1..Len(paidAt[id])} :
        \A k \in 1..Len(paidAt[id]) : t <= paidAt[id][k]

\* Math.max(0, (paymentDate - issueDate) / (1000 * 60 * 60 * 24)), in days
RECURSIVE PaymentDelays(_)
PaymentDelays(h) ==
    IF h = <<>> THEN <<>>
    ELSE LET rest == PaymentDelays(Tail(h))
         IN IF payments[Head(h)] = <<>> THEN rest
            ELSE <<Max(0, FirstPaidAt(Head(h)) - invoices[Head(h)].issueDate)>> \o rest

\* Math.min(95, Math.round(Math.max(0, 100 - stdDev * 5) * 0.7 + historyBonus)),
\* with stdDev = sqrt(spread) / n for spread = n * sum(d^2) - sum(d)^2: the
\* largest k with 7 * sqrt(spread) <= n * (141 + 2 * bonus - 2 * k)
Confidence(delays) ==
    LET n == Len(delays)
        sum == SumSeq(delays)
        squares == SumSeq([i \in 1..n |-> delays[i] * delays[i]])
        spread == n * squares - sum * sum
        bonus == Min(MaxHistoryBonus, n * 4)
        reached(k) == LET room == n * (141 + 2 * bonus - 2 * k)
                      IN room >= 0 /\ 49 * spread <= room * room
        rounded == IF 25 * spread >= 10000 * n * n THEN bonus
                   ELSE CHOOSE k \in 0..(71 + bonus) :
                           reached(k) /\ (k = 71 + bonus \/ ~reached(k + 1))
    IN Min(MaxConfidence, rounded)

\* the result of predictPaymentDate for the history `h`, the host in `zone`
Prediction(h, total, due, zone) ==
    LET delays == PaymentDelays(h)
        n == Len(delays)
    IN IF n = 0
       THEN [predictedDate |-> IsoDate(AddLocalDays(zone, due, DefaultBufferDays)),
             confidence |-> DefaultConfidence, avgDays |-> 0, riskLevel |-> "medium"]
       ELSE LET weighted == SumSeq([i \in 1..n |-> delays[i] * (n - (i - 1))])
                weights == SumSeq([i \in 1..n |-> n - (i - 1)])
                avgDays == RoundDiv(weighted, weights)
                fromNow == AddLocalDays(zone, Instant(now), avgDays)
                anchored == IF due # InvalidDate /\ fromNow < due THEN due ELSE fromNow
                late == anchored - due
                totals == SumSeq([i \in 1..Len(h) |-> invoices[h[i]].total])
                final == IF 2 * total * Len(h) > 3 * totals
                         THEN AddLocalDays(zone, anchored, LargeInvoiceDays)
                         ELSE anchored
            IN [predictedDate |-> IsoDate(final),
                confidence |-> Confidence(delays),
                avgDays |-> RoundDiv(SumSeq(delays), n),
                riskLevel |-> IF due = InvalidDate THEN "high"
                              ELSE IF late <= 0 THEN "low"
                              ELSE IF late <= MediumRiskDays * HoursPerDay THEN "medium"
                              ELSE "high"]

\* POST /api/ai, action "predict-payment": `due` is the instant new Date(dueDate),
\* 0 for a request without dueDate; the default prediction of a date that is
\* no date throws in toISOString
PredictPaymentDate(u, c, total, due, zone) ==
    /\ IF c = None \/ total = 0 \/ due = 0
       THEN last' = [Request("predictPaymentDate", u, 0, total, 400) EXCEPT
                        !.client = c, !.date = due]
       ELSE \E h \in HistoryOrders(u, c) :
               last' = IF due = InvalidDate /\ PaymentDelays(h) = <<>>
                       THEN [Request("predictPaymentDate", u, 0, total, 500) EXCEPT
                                !.client = c, !.date = due]
                       ELSE [Request("predictPaymentDate", u, 0, total, 200) EXCEPT
                                !.client = c, !.date = due,
                                !.body = Prediction(h, total, due, zone)]
    /\ UNCHANGED <<invoices, payments, paidAt, invoiceCounter, nextId, now, clients, inflight>>

\* ----------------------------------------------------- duplicate detection
\* description.toLowerCase().trim(), over the descriptions in use
Normalise(description) ==
    IF description \in {"Design ", " design"} THEN "design" ELSE description

\* amount similarity (0-40): |inv.total - total| / Math.max(inv.total, total, 1)
AmountPoints(invTotal, total) ==
    LET diff == Abs(invTotal - total)
        largest == Max(Max(invTotal, total), UnitsPerOne)
    IN IF diff = 0 THEN 40
       ELSE IF diff * 100 < largest THEN 35
       ELSE IF diff * 20 < largest THEN 20
       ELSE IF diff * 10 < largest THEN 10
       ELSE 0

\* date proximity (0-20), the two instants in hours
DatePoints(invIssued, issued) ==
    LET hours == Abs(invIssued - issued)
    IN IF hours < 1 * HoursPerDay THEN 20
       ELSE IF hours < 3 * HoursPerDay THEN 15
       ELSE IF hours < 7 * HoursPerDay THEN 10
       ELSE IF hours < 14 * HoursPerDay THEN 5
       ELSE 0

\* the inner loop over inv.items for one new item: the tenths of a match that
\* the first existing item of the same description gives, then break
RECURSIVE MatchedTenths(_, _)
MatchedTenths(newItem, existing) ==
    IF existing = <<>> THEN 0
    ELSE LET item == Head(existing)
             descMatch == Normalise(newItem.description) = Normalise(item.description)
             rateMatch == Abs(newItem.rate - item.rate) < Tolerance
             qtyMatch == newItem.quantity = item.quantity
         IN IF descMatch /\ rateMatch /\ qtyMatch THEN 10
            ELSE IF descMatch /\ rateMatch THEN 7
            ELSE IF descMatch THEN 4
            ELSE MatchedTenths(newItem, Tail(existing))

\* item similarity (0-40): Math.round(matchedItems / Math.max(lengths) * 40)
ItemPointsOverBoth(items, existing) ==
    IF items = <<>> \/ existing = <<>> THEN 0
    ELSE RoundDiv(SumSeq([k \in 1..Len(items) |-> MatchedTenths(items[k], existing)]) * 4,
                  Len(items) + Len(existing))

ItemPoints(items, existing) ==
    IF items = <<>> \/ existing = <<>> THEN 0
    ELSE RoundDiv(SumSeq([k \in 1..Len(items) |-> MatchedTenths(items[k], existing)]) * 4,
                  Max(Len(items), Len(existing)))

Similarity(id, total, issued, items) ==
    AmountPoints(invoices[id].total, total)
      + DatePoints(Instant(invoices[id].issueDate), issued)
      + ItemPoints(items, invoices[id].items)

\* findMany({ where: { userId, clientId, issueDate: { gte: startDate, lte: endDate },
\*                     status: { not: "cancelled" } } })
ExistingInWindow(u, c, issued, zone) ==
    {id \in Ids : /\ Owned(u, id) /\ invoices[id].clientId = c
                  /\ invoices[id].status # "cancelled"
                  /\ Instant(invoices[id].issueDate) >= AddLocalDays(zone, issued, -WindowDays)
                  /\ Instant(invoices[id].issueDate) <= AddLocalDays(zone, issued, WindowDays)}

\* the pushed entries after similarInvoices.sort((a, b) => b.similarity - a.similarity):
\* the sort is stable and the store gave the invoices newest first
SortedSimilar(ids, total, issued, items) ==
    LET kept == {id \in ids : Similarity(id, total, issued, items) >= MinSimilarity}
        sim(id) == Similarity(id, total, issued, items)
        order == CHOOSE f \in [1..Cardinality(kept) -> kept] :
                    \A i, j \in 1..Cardinality(kept) : i < j =>
                        /\ f[i] # f[j]
                        /\ sim(f[i]) >= sim(f[j])
                        /\ sim(f[i]) = sim(f[j]) => f[i] > f[j]
    IN [i \in 1..Cardinality(kept) |-> [id |-> order[i], similarity |-> sim(order[i])]]

\* the result of detectDuplicateInvoice; confidence is kept doubled, the code's
\* 95 - highestSimilarity * 0.5 being a half-integer
DuplicateCheck(ids, total, issued, items) ==
    LET similar == SortedSimilar(ids, total, issued, items)
        isDuplicate == \E i \in 1..Len(similar) : similar[i].similarity >= DuplicateSimilarity
        highest == IF similar = <<>> THEN 0 ELSE similar[1].similarity
    IN IF ids = {}
       THEN [isDuplicate |-> FALSE, confidenceDoubled |-> 2 * MaxConfidence,
             similarInvoices |-> <<>>]
       ELSE [isDuplicate |-> isDuplicate,
             confidenceDoubled |-> IF isDuplicate THEN 2 * highest
                                   ELSE 2 * MaxConfidence - highest,
             similarInvoices |-> SubSeq(similar, 1, Min(MaxSimilar, Len(similar)))]

\* POST /api/ai, action "detect-duplicate": `issued` is the instant
\* new Date(issueDate), 0 for a request without issueDate
DetectDuplicate(u, c, total, issued, items, zone) ==
    /\ LET answer(code) == [Request("detectDuplicate", u, 0, total, code) EXCEPT
                               !.client = c, !.date = issued, !.items = items]
       IN last' = IF c = None \/ issued = 0 THEN answer(400)
                  ELSE IF issued = InvalidDate THEN answer(500)
                  ELSE [answer(200) EXCEPT !.body =
                           DuplicateCheck(ExistingInWindow(u, c, issued, zone),
                                          total, issued, items)]
    /\ UNCHANGED <<invoices, payments, paidAt, invoiceCounter, nextId, now, clients, inflight>>

\* the awaited store calls of DELETE /api/invoices/[id], in program order
DeleteStepsRowFirst == <<"deleteRow", "deletePayments">>

DeleteSteps == <<"deletePayments", "deleteRow">>

\* the foreign key of Payment.invoiceId does not cascade: an invoice row that
\* payments still refer to is not deleted
PaymentsBlockDelete(id) == payments[id] # <<>>

\* the request in flight has run `step`: it returns `code` after its last step
AfterStep(p, step, code) ==
    IF inflight[p].at = Len(DeleteSteps)
    THEN /\ inflight' = [inflight EXCEPT ![p] = Idle]
         /\ last' = Request("deleteInvoice", inflight[p].user, inflight[p].id, 0, code)
    ELSE /\ inflight' = [inflight EXCEPT ![p].at = @ + 1, ![p].ran = @ \cup {step}]
         /\ UNCHANGED last

\* DELETE /api/invoices/[id] up to its first store write: findFirst by id and user
DeleteBegin(p, u, id) ==
    /\ inflight[p] = Idle
    /\ IF ~Owned(u, id)
       THEN /\ last' = Request("deleteInvoice", u, id, 0, 404)
            /\ UNCHANGED inflight
       ELSE /\ inflight' = [inflight EXCEPT ![p] =
                   [pc |-> "delete", user |-> u, id |-> id, at |-> 1, ran |-> {}]]
            /\ UNCHANGED last
    /\ UNCHANGED <<invoices, payments, paidAt, invoiceCounter, nextId, now, clients>>

\* prisma.payment.deleteMany({ where: { invoiceId: id } })
DeletePayments(p) ==
    /\ inflight[p].pc = "delete"
    /\ DeleteSteps[inflight[p].at] = "deletePayments"
    /\ payments' = [payments EXCEPT ![inflight[p].id] = <<>>]
    /\ paidAt' = [paidAt EXCEPT ![inflight[p].id] = <<>>]
    /\ AfterStep(p, "deletePayments", 200)
    /\ UNCHANGED <<invoices, invoiceCounter, nextId, now, clients>>

\* prisma.invoice.delete({ where: { id } }), the items going with the invoice
DeleteRow(p) ==
    /\ inflight[p].pc = "delete"
    /\ DeleteSteps[inflight[p].at] = "deleteRow"
    /\ LET id == inflight[p].id
           failed(code) ==
               /\ inflight' = [inflight EXCEPT ![p] = Idle]
               /\ last' = Request("deleteInvoice", inflight[p].user, id, 0, code)
               /\ UNCHANGED invoices
       IN IF ~Exists(id) THEN failed(404)
          ELSE IF PaymentsBlockDelete(id) THEN failed(500)
          ELSE /\ invoices' = [invoices EXCEPT ![id] = NoInvoice]
               /\ AfterStep(p, "deleteRow", 200)
    /\ UNCHANGED <<payments, paidAt, invoiceCounter, nextId, now, clients>>

\* const nextCounter = (userData?.invoiceCounter || 0) + 1
NextCounterFromLastInvoice(u) == NextNumber(u)

NextCounter(u) == invoiceCounter[u] + 1

\* POST /api/invoices/[id]/duplicate
DuplicateInvoice(u, id) ==
    /\ IF ~Owned(u, id)
       THEN /\ last' = Request("duplicateInvoice", u, id, 0, 404)
            /\ UNCHANGED <<invoices, invoiceCounter, nextId>>
       ELSE IF NumberRefused(u, FormatNumber(NextCounter(u)))
       THEN /\ last' = Request("duplicateInvoice", u, id, 0, 409)
            /\ UNCHANGED <<invoices, invoiceCounter, nextId>>
       ELSE LET nextCounter == NextCounter(u)
            IN /\ nextId <= MaxInvoices
               /\ invoiceCounter' = [invoiceCounter EXCEPT ![u] = nextCounter]
               /\ invoices' = [invoices EXCEPT ![nextId] =
                     [invoices[id] EXCEPT
                         !.number = FormatNumber(nextCounter),
                         !.status = "draft",
                         !.issueDate = now,
                         !.dueDate = now + DuplicateDueDays,
                         !.reminderCount = 0]]
               /\ nextId' = nextId + 1
               /\ last' = [Request("duplicateInvoice", u, id, 0, 201) EXCEPT
                              !.made = nextId]
    /\ UNCHANGED <<payments, paidAt, now, clients, inflight>>

\* ------------------------------------------------------ the request inputs
OwnClient(u) == IF u = "u1" THEN "c1" ELSE "c2"

OneItem(q, r) == <<[description |-> "design", quantity |-> q, rate |-> r]>>

Invoice(c, due, taxRate, status, itemInputs) ==
    InvoiceData(c, 0, due, taxRate, status, itemInputs, None, None)

StatusPatch(st) == Patch({"status"}, st, 0, <<>>, None, 0)
TaxPatch(t) == Patch({"taxRate"}, None, t, <<>>, None, 0)
ItemsPatch(its) == Patch({"items"}, None, 0, its, None, 0)

PayPatches ==
    {StatusPatch(st) : st \in Statuses}
      \cup {TaxPatch(t) : t \in {0, 50, MaxTaxRate + 1}}
      \cup {ItemsPatch(its) : its \in {<<>>} \cup {OneItem(q, 2) : q \in Quantities}}
      \cup {Patch({"items", "taxRate"}, None, 50, OneItem(1, 2), None, 0),
            Patch({"items", "dueDate"}, None, 0, OneItem(1, 2), None, InvalidDate)}

\* createInvoice, updateInvoice, recordPayment and processOnlinePayment alone
NextPay ==
    \/ \E u \in Users, t \in {0, 50}, s \in CreateStatuses,
          its \in {<<>>} \cup {OneItem(q, 2) : q \in Quantities} :
          /\ nextId <= PayInvoices
          /\ CreateInvoice(u, Invoice(OwnClient(u), 1, t, s, its))
    \/ \E u \in Users, id \in 1..(PayInvoices + 1), p \in PayPatches : UpdateInvoice(u, id, p)
    \/ \E u \in Users, id \in 1..(PayInvoices + 1), a \in 0..MaxAmount :
          /\ RecordPayment(u, id, a)
          /\ Len(payments'[id]) <= MaxPayments
    \/ \E id \in 1..(PayInvoices + 1) :
          /\ ProcessOnlinePayment(id)
          /\ Len(payments'[id]) <= MaxPayments

SpecPay == Init /\ [][NextPay]_vars

LifePatches ==
    {StatusPatch(st) : st \in Statuses}
      \cup {TaxPatch(50), ItemsPatch(OneItem(2, 2))}

\* every handler that reads or writes one invoice, the sweep and the clock
Next ==
    \/ \E u \in Users, s \in CreateStatuses :
          /\ nextId <= LifeInvoices
          /\ CreateInvoice(u, Invoice(OwnClient(u), 1, 0, s, OneItem(1, 2)))
    \/ \E u \in Users, id \in 1..(LifeInvoices + 1), p \in LifePatches : UpdateInvoice(u, id, p)
    \/ \E u \in Users, id \in 1..(LifeInvoices + 1) : SendInvoice(u, id)
    \/ \E u \in Users, id \in 1..(LifeInvoices + 1), type \in {"invoice", "reminder", "confirmation"} :
          /\ SendEmail(u, id, type)
          /\ Exists(id) => invoices'[id].reminderCount <= MaxReminders
    \/ \E u \in Users, id \in 1..(LifeInvoices + 1) :
          /\ Remind(u, id)
          /\ Exists(id) => invoices'[id].reminderCount <= MaxReminders
    \/ \E u \in Users, id \in 1..(LifeInvoices + 1), a \in 1..LifeAmount :
          /\ RecordPayment(u, id, a)
          /\ Len(payments'[id]) <= MaxPayments
    \/ \E id \in 1..(LifeInvoices + 1) :
          /\ ProcessOnlinePayment(id)
          /\ Len(payments'[id]) <= MaxPayments
    \/ \E u \in Users : SweepOverdue(u)
    \/ Tick
    \/ \E u \in Users, id \in 1..(LifeInvoices + 1) : DeleteInvoice(u, id)

Spec == Init /\ [][Next]_vars

\* createInvoice, duplicateInvoice and deleteInvoice alone
NextNumbering ==
    \/ \E u \in Users, s \in CreateStatuses, text \in {"", "net 30"} :
          /\ nextId <= NumberingInvoices
          /\ CreateInvoice(u, InvoiceData(OwnClient(u), 0, 1, 0, s, OneItem(1, 2), text, text))
    \/ \E u \in Users, id \in 1..NumberingInvoices :
          /\ Owned(u, id) => nextId <= NumberingInvoices
          /\ DuplicateInvoice(u, id)
    \/ \E u \in Users, id \in 1..NumberingInvoices : DeleteInvoice(u, id)

SpecNumbering == Init /\ [][NextNumbering]_vars

\* the overdue sweep over invoices of two users, with the clock running
NextSweep ==
    \/ \E u \in Users, due \in Dates, s \in CreateStatuses :
          /\ nextId <= SweepInvoices
          /\ CreateInvoice(u, Invoice(OwnClient(u), due, 0, s, OneItem(1, 2)))
    \/ \E u \in Users, id \in 1..SweepInvoices, st \in {"sent", "paid"} :
          UpdateInvoice(u, id, StatusPatch(st))
    \/ \E u \in Users : SweepOverdue(u)
    \/ Tick

SpecSweep == Init /\ [][NextSweep]_vars

\* deleteInvoice step by step, among createInvoice and recordPayment requests
NextDelete ==
    \/ \E u \in Users :
          /\ nextId <= DeleteInvoices
          /\ CreateInvoice(u, Invoice(OwnClient(u), 1, 0, "sent", OneItem(2, 1)))
    \/ \E u \in Users, id \in 1..DeleteInvoices :
          /\ RecordPayment(u, id, 1)
          /\ Len(payments'[id]) <= MaxPayments
    \/ \E p \in Procs, u \in Users, id \in 1..DeleteInvoices : DeleteBegin(p, u, id)
    \/ \E p \in Procs : DeletePayments(p)
    \/ \E p \in Procs : DeleteRow(p)

SpecDelete == Init /\ [][NextDelete]_vars

ClientPatch(c) == Patch({"clientId"}, None, 0, <<>>, c, 0)

\* clients created and deleted among invoices created, moved between clients,
\* paid off and deleted
NextClient ==
    \/ \E u \in Users, c \in ClientIds, valid \in BOOLEAN : CreateClient(u, c, valid)
    \/ \E u \in Users, c \in ClientIds : DeleteClient(u, c)
    \/ \E u \in Users, c \in ClientIds :
          /\ nextId <= ClientInvoices
          /\ CreateInvoice(u, Invoice(c, 1, 0, "sent", OneItem(1, 1)))
    \/ \E u \in Users, id \in 1..ClientInvoices, c \in ClientIds :
          UpdateInvoice(u, id, ClientPatch(c))
    \/ \E id \in 1..ClientInvoices : ProcessOnlinePayment(id)
    \/ \E u \in Users, id \in 1..ClientInvoices : DeleteInvoice(u, id)

SpecClient == Init /\ [][NextClient]_vars

\* every handler that takes an invoice id, called by both users on every id
NextTenant ==
    \/ \E u \in Users :
          /\ nextId <= TenantInvoices
          /\ CreateInvoice(u, Invoice(OwnClient(u), 1, 0, "sent", OneItem(1, 1)))
    \/ \E u \in Users, id \in 1..(TenantInvoices + 1) : GetInvoice(u, id)
    \/ \E u \in Users, id \in 1..(TenantInvoices + 1) : ListPayments(u, id)
    \/ \E u \in Users, id \in 1..(TenantInvoices + 1) :
          UpdateInvoice(u, id, StatusPatch("cancelled"))
    \/ \E u \in Users, id \in 1..(TenantInvoices + 1) : DeleteInvoice(u, id)
    \/ \E u \in Users, id \in 1..(TenantInvoices + 1) : SendInvoice(u, id)
    \/ \E u \in Users, id \in 1..(TenantInvoices + 1) :
          /\ Remind(u, id)
          /\ Exists(id) => invoices'[id].reminderCount <= MaxReminders
    \/ \E u \in Users, id \in 1..(TenantInvoices + 1), type \in {"invoice", "reminder", "confirmation"} :
          /\ SendEmail(u, id, type)
          /\ Exists(id) => invoices'[id].reminderCount <= MaxReminders
    \/ \E u \in Users, id \in 1..(TenantInvoices + 1) :
          /\ Owned(u, id) => nextId <= TenantInvoices
          /\ DuplicateInvoice(u, id)
    \/ \E u \in Users, id \in 1..(TenantInvoices + 1) :
          /\ RecordPayment(u, id, 1)
          /\ Len(payments'[id]) <= MaxPayments

SpecTenant == Init /\ [][NextTenant]_vars

\* payment predictions asked while invoices are created, marked paid and paid
NextPredict ==
    \/ \E u \in Users :
          /\ nextId <= PredictInvoices
          /\ CreateInvoice(u, Invoice("c1", 1, 0, "sent", OneItem(1, 2)))
    \/ \E id \in 1..PredictInvoices : UpdateInvoice("u1", id, StatusPatch("paid"))
    \/ \E id \in 1..PredictInvoices :
          /\ ProcessOnlinePayment(id)
          /\ Len(payments'[id]) <= MaxPayments
    \/ Tick
    \/ \E u \in Users, c \in {"c1", None}, total \in {0, 2, 7},
          due \in {0, InvalidDate} \cup {Instant(d) : d \in Dates}, zone \in Zones :
          PredictPaymentDate(u, c, total, due, zone)

SpecPredict == Init /\ [][NextPredict]_vars

DupItem(description) == <<[description |-> description, quantity |-> 1, rate |-> 2]>>

\* duplicate checks asked while invoices of one client are created and cancelled
NextDup ==
    \/ \E u \in Users, issue \in {1, 1 + WindowDays}, t \in {0, 50},
          d \in {"design", "hosting"} :
          /\ nextId <= DupInvoices
          /\ CreateInvoice(u, InvoiceData("c1", issue, issue, t, "sent", DupItem(d), None, None))
    \/ UpdateInvoice("u1", 1, StatusPatch("cancelled"))
    \/ \E u \in Users, c \in {"c1", None}, total \in {2, 3},
          issued \in {0, InvalidDate, Instant(1)},
          items \in {<<>>, DupItem("Design ")}, zone \in Zones :
          DetectDuplicate(u, c, total, issued, items, zone)

SpecDup == Init /\ [][NextDup]_vars

\* recordPayment requests served together on one invoice, step by step
NextRace ==
    \/ \E u \in Users :
          /\ nextId <= RaceInvoices
          /\ CreateInvoice(u, Invoice(OwnClient(u), 1, 0, "sent", OneItem(2, 2)))
    \/ \E p \in Procs, u \in Users, id \in 1..RaceInvoices, a \in {0, 2, 4, 5} :
          PaymentBegin(p, u, id, a)
    \/ \E p \in Procs : PaymentAggregate(p)
    \/ \E p \in Procs :
          /\ PaymentCreate(p)
          /\ Len(payments'[inflight[p].id]) <= MaxPayments
    \/ \E p \in Procs : PaymentMarkPaid(p)

SpecRace == Init /\ [][NextRace]_vars

\* createInvoice requests served together, step by step
NextCreateRace ==
    \/ \E p \in Procs, u \in Users, st \in CreateStatuses, t \in {0, 2 * MaxTaxRate} :
          /\ nextId + Cardinality({q \in Procs : inflight[q] # Idle}) <= CreateRaceInvoices
          /\ CreateBegin(p, u, Invoice(OwnClient(u), 1, t, st, OneItem(1, 2)))
    \/ \E p \in Procs : CreateInsert(p)
    \/ \E u \in Users, id \in 1..CreateRaceInvoices : DeleteInvoice(u, id)

SpecCreateRace == Init /\ [][NextCreateRace]_vars

\* updateInvoice requests served together, step by step
UpdateRacePatches ==
    {ItemsPatch(OneItem(2, 2)), TaxPatch(50), TaxPatch(MaxTaxRate + 1),
     Patch({"items", "dueDate"}, None, 0, OneItem(2, 2), None, InvalidDate)}

NextUpdateRace ==
    \/ \E u \in Users :
          /\ nextId <= UpdateRaceInvoices
          /\ CreateInvoice(u, Invoice(OwnClient(u), 1, 0, "draft", OneItem(1, 2)))
    \/ \E p \in Procs, u \in Users, id \in 1..UpdateRaceInvoices, patch \in UpdateRacePatches :
          UpdateBegin(p, u, id, patch)
    \/ \E p \in Procs : UpdateDeleteItems(p)
    \/ \E p \in Procs : UpdateWrite(p)

SpecUpdateRace == Init /\ [][NextUpdateRace]_vars

\* reminder requests served together, step by step
NextReminderRace ==
    \/ \E u \in Users, st \in CreateStatuses :
          /\ nextId <= ReminderRaceInvoices
          /\ CreateInvoice(u, Invoice(OwnClient(u), 1, 0, st, OneItem(1, 2)))
    \/ \E p \in Procs, u \in Users, id \in 1..ReminderRaceInvoices,
          via \in {"remind", "sendEmail"} :
          /\ ReminderBegin(p, u, id, via)
          /\ Exists(id) =>
                invoices[id].reminderCount
                  + Cardinality({q \in Procs : inflight'[q] # Idle}) <= MaxReminders + 1
    \/ \E p \in Procs : ReminderWrite(p)
    \/ \E u \in Users, id \in 1..ReminderRaceInvoices : DeleteInvoice(u, id)

SpecReminderRace == Init /\ [][NextReminderRace]_vars

\* item lists with a repeated description, in both orders
SameLists ==
    LET a == [description |-> "design", quantity |-> 1, rate |-> 2]
        b == [description |-> "Design ", quantity |-> 2, rate |-> 4]
        c == [description |-> "hosting", quantity |-> 1, rate |-> 2]
    IN {<<a>>, <<a, b>>, <<b, a>>, <<a, c>>}

\* duplicate checks of candidates that repeat an invoice of the client
NextSame ==
    \/ \E u \in Users, its \in SameLists :
          /\ nextId <= SameInvoices
          /\ CreateInvoice(u, InvoiceData("c1", 1, 1, 0, "sent", its, None, None))
    \/ UpdateInvoice("u1", 1, StatusPatch("cancelled"))
    \/ \E u \in Users, total \in {Subtotal(WithAmounts(its)) : its \in SameLists},
          items \in SameLists \cup {<<>>}, zone \in Zones :
          DetectDuplicate(u, "c1", total, Instant(1), items, zone)

SpecSame == Init /\ [][NextSame]_vars

\* online payments of one invoice served together, step by step
NextOnlineRace ==
    \/ \E u \in Users, q \in Quantities :
          /\ nextId <= RaceInvoices
          /\ CreateInvoice(u, Invoice(OwnClient(u), 1, 0, "sent", OneItem(q, 2)))
    \/ \E p \in Procs, id \in 1..(RaceInvoices + 1) : OnlineBegin(p, id)
    \/ \E p \in Procs :
          /\ OnlineCreate(p)
          /\ Len(payments'[inflight[p].id]) <= MaxPayments
    \/ \E p \in Procs : OnlineMarkPaid(p)

SpecOnlineRace == Init /\ [][NextOnlineRace]_vars

\* ================================================================== claims
\* the other invoices and their payments are left alone by a step on `id`
OthersUnchanged(id) ==
    \A o \in Ids \ {id} : invoices'[o] = invoices[o] /\ payments'[o] = payments[o]

\* C1: for every invoice, in every state reached by completed createInvoice,
\* updateInvoice, recordPayment and processOnlinePayment requests, the sum of
\* the invoice's payments is at most the invoice's stored total.
C1_PaymentsWithinTotal ==
    \A id \in Ids : Exists(id) => PaidSum(id) <= invoices[id].total

\* C5: a recordPayment whose amount, added to the sum of the invoice's existing
\* payments, exceeds invoice.total is answered with an error, creates no payment
\* and leaves every invoice and every payment as it was.
C5_OverpaymentRejected ==
    [][\A id \in Ids :
          (/\ last'.op = "recordPayment" /\ last'.id = id
           /\ Exists(id)
           /\ PaidSum(id) + last'.amount > invoices[id].total)
          => (/\ last'.code \in {400, 404}
              /\ payments' = payments
              /\ invoices' = invoices)]_vars

C5_Witness ==
    /\ last.op = "recordPayment" /\ last.code = 400 /\ last.amount > 0
    /\ Exists(last.id)
    /\ payments[last.id] # <<>>
    /\ last.amount <= invoices[last.id].total
    /\ PaidSum(last.id) + last.amount > invoices[last.id].total

C7_OnlinePaysWholeBalance ==
    [][(last'.op = "processOnlinePayment" /\ last'.code = 200)
          => LET id == last'.id
             IN /\ Exists(id)
                /\ BalanceDue(id) > 0
                /\ last'.amount = BalanceDue(id)
                /\ payments'[id] = Append(payments[id], BalanceDue(id))
                /\ invoices' = [invoices EXCEPT ![id].status = "paid"]
                /\ invoices'[id].total - SumSeq(payments'[id]) = 0
                /\ OthersUnchanged(id)]_vars

C7_Witness ==
    /\ last.op = "processOnlinePayment" /\ last.code = 200
    /\ Len(payments[last.id]) = 2
    /\ payments[last.id][2] = last.amount
    /\ last.amount < invoices[last.id].total
    /\ invoices[last.id].status = "paid"
    /\ BalanceDue(last.id) = 0

\* C8: processOnlinePayment is answered with an error, creates no payment and
\* changes no invoice whenever the invoice does not exist, its status is paid
\* or cancelled, or its balance due is at most 0.
C8_OnlineRejected ==
    [][\A id \in Ids :
          (/\ last'.op = "processOnlinePayment" /\ last'.id = id
           /\ \/ ~Exists(id)
              \/ invoices[id].status \in {"paid", "cancelled"}
              \/ BalanceDue(id) <= 0)
          => (/\ last'.code \in {400, 404}
              /\ payments' = payments
              /\ invoices' = invoices)]_vars

C8_Witness ==
    /\ last.op = "processOnlinePayment" /\ last.code = 400
    /\ Exists(last.id)
    /\ invoices[last.id].status \notin {"paid", "cancelled"}
    /\ invoices[last.id].total > 0
    /\ BalanceDue(last.id) = 0

\* C2: once an invoice's status is paid or cancelled, no later operation on the
\* still existing invoice changes its status, its items, or its taxRate, tax
\* and total.
C2_TerminalFrozen ==
    [][\A id \in Ids :
          (/\ Exists(id) /\ invoices'[id].exists
           /\ invoices[id].status \in {"paid", "cancelled"})
          => (/\ invoices'[id].status = invoices[id].status
              /\ invoices'[id].items = invoices[id].items
              /\ invoices'[id].taxRate = invoices[id].taxRate
              /\ invoices'[id].tax = invoices[id].tax
              /\ invoices'[id].total = invoices[id].total)]_vars

AllowedTransitions ==
    {<<"draft", "sent">>, <<"draft", "cancelled">>, <<"sent", "paid">>,
     <<"sent", "overdue">>, <<"sent", "cancelled">>, <<"overdue", "paid">>}

\* C3: every change of an existing invoice's status away from draft, sent or
\* overdue is one of draft->sent, draft->cancelled, sent->paid, sent->overdue,
\* sent->cancelled, overdue->paid.
C3_OnlyAllowedTransitions ==
    [][\A id \in Ids :
          (/\ Exists(id) /\ invoices'[id].exists
           /\ invoices[id].status \in {"draft", "sent", "overdue"}
           /\ invoices'[id].status # invoices[id].status)
          => <<invoices[id].status, invoices'[id].status>> \in AllowedTransitions]_vars

\* C4: after any sequence of completed createInvoice, duplicateInvoice and
\* deleteInvoice requests, no two existing invoices of one user have the same
\* number.
C4_NumbersUnique ==
    \A a, b \in Ids :
        (a # b /\ Exists(a) /\ Exists(b) /\ invoices[a].userId = invoices[b].userId)
        => invoices[a].number # invoices[b].number

\* C11: duplicateInvoice on an invoice of the caller is answered 201 and
\* creates a new invoice with status draft, an id and a number both different
\* from the source's, the source's client, notes, terms and items, and no
\* payments; the source invoice is unchanged.
C11_DuplicateFresh ==
    [][(last'.op = "duplicateInvoice" /\ Owned(last'.user, last'.id))
          => LET src == last'.id
                 new == last'.made
             IN /\ last'.code = 201
                /\ new # src /\ ~Exists(new) /\ invoices'[new].exists
                /\ invoices'[new].status = "draft"
                /\ invoices'[new].number # invoices[src].number
                /\ invoices'[new].userId = invoices[src].userId
                /\ invoices'[new].clientId = invoices[src].clientId
                /\ invoices'[new].notes = invoices[src].notes
                /\ invoices'[new].terms = invoices[src].terms
                /\ invoices'[new].items = invoices[src].items
                /\ payments'[new] = <<>>
                /\ invoices'[src] = invoices[src]
                /\ payments'[src] = payments[src]]_vars

\* the stored amounts of an invoice agree with its items and its tax rate
TotalsAgree(inv) ==
    /\ \A k \in 1..Len(inv.items) :
          inv.items[k].amount = inv.items[k].quantity * inv.items[k].rate
    /\ inv.subtotal = SumSeq([k \in 1..Len(inv.items) |-> inv.items[k].amount])
    /\ inv.tax * 100 = inv.subtotal * inv.taxRate
    /\ inv.total = inv.subtotal + inv.tax

\* C12: after every successful createInvoice and every successful
\* updateInvoice, the stored invoice has each item's amount = quantity x rate,
\* subtotal = the sum of its items' amounts, tax = subtotal x taxRate / 100
\* and total = subtotal + tax.
C12_TotalsRecomputed ==
    [][/\ (last'.op = "createInvoice" /\ last'.code = 201)
             => TotalsAgree(invoices'[last'.made])
       /\ (/\ last'.op = "updateInvoice" /\ last'.code = 200
           /\ last'.set \cap {"items", "taxRate"} # {})
             => TotalsAgree(invoices'[last'.id])]_vars

\* C13: deleteInvoice removes the payments of the invoice before it removes the
\* invoice itself; once it has completed neither the invoice (with its items)
\* nor any payment referring to it exists; the payments and items of every
\* other invoice are unchanged by each of its steps.
C13_PaymentsBeforeInvoice ==
    [][\A p \in Procs :
          (inflight[p].pc = "delete" /\ inflight'[p] # inflight[p])
          => LET id == inflight[p].id
             IN /\ (Exists(id) /\ ~invoices'[id].exists)
                      => ("deletePayments" \in inflight[p].ran /\ payments[id] = <<>>)
                /\ (inflight'[p] = Idle /\ last'.code = 200)
                      => (~invoices'[id].exists /\ payments'[id] = <<>>)
                /\ OthersUnchanged(id)]_vars

C13_Witness ==
    \E p \in Procs :
        /\ inflight[p].pc = "delete" /\ "deletePayments" \in inflight[p].ran
        /\ Exists(inflight[p].id)
        /\ invoices[inflight[p].id].status = "paid"
        /\ payments[inflight[p].id] = <<>>
        /\ \E o \in Ids : /\ Exists(o) /\ invoices[o].userId = inflight[p].user
                            /\ payments[o] # <<>>

\* C14: deleteClient on a client that has at least one invoice is rejected and
\* leaves the client and its invoices unchanged; a client is only ever deleted
\* while no invoice refers to it; in every state reached by completed requests
\* the client of every invoice exists.
C14_ClientKeptWhileInvoiced ==
    /\ [][\A c \in ClientIds :
             /\ (/\ last'.op = "deleteClient" /\ last'.client = c
                 /\ \E id \in Ids : Exists(id) /\ invoices[id].clientId = c)
                   => (/\ last'.code \in {400, 404}
                       /\ clients' = clients /\ invoices' = invoices)
             /\ (clients[c] # None /\ clients'[c] = None)
                   => ~\E id \in Ids : Exists(id) /\ invoices[id].clientId = c]_vars
    /\ [](\A id \in Ids : Exists(id) => clients[invoices[id].clientId] # None)

C14_Witness ==
    /\ last.op = "deleteClient" /\ last.code = 400
    /\ clients[last.client] = last.user
    /\ \E id \in Ids : /\ Exists(id) /\ invoices[id].clientId = last.client
                         /\ invoices[id].status = "paid"
    /\ \E c \in ClientIds : clients[c] = None

IdOps ==
    {"getInvoice", "listPayments", "updateInvoice", "deleteInvoice", "sendInvoice",
     "remind", "sendEmail", "duplicateInvoice", "recordPayment"}

C16_SendDraftOrSentOnly ==
    [][\A id \in Ids :
          (/\ last'.id = id
           /\ \/ last'.op = "sendInvoice"
              \/ last'.op = "sendEmail" /\ last'.type = "invoice"
           /\ Exists(id) /\ invoices[id].userId = last'.user)
          => (/\ IF invoices[id].status \in {"draft", "sent"}
                 THEN /\ last'.code = 200
                      /\ invoices' = [invoices EXCEPT ![id].status = "sent"]
                 ELSE /\ last'.code = 400
                      /\ invoices' = invoices
              /\ payments' = payments)]_vars

C16_Witness ==
    /\ last.op = "sendEmail" /\ last.type = "invoice" /\ last.code = 400
    /\ Exists(last.id) /\ invoices[last.id].userId = last.user
    /\ invoices[last.id].status = "overdue"

\* C17: predictPaymentDate for a client with no paid invoice that has a
\* payment returns confidence 30, risk medium and predictedDate equal to
\* dueDate plus 3 days, whatever the invoice total and the current date are.
C17_NoHistoryDefault ==
    [][(/\ last'.op = "predictPaymentDate"
        /\ last'.client # None /\ last'.amount > 0 /\ last'.date > 0
        /\ ~\E id \in Ids : /\ Exists(id) /\ invoices[id].clientId = last'.client
                             /\ invoices[id].status = "paid" /\ payments[id] # <<>>)
          => (/\ last'.code = 200
              /\ last'.body.confidence = 30
              /\ last'.body.riskLevel = "medium"
              /\ last'.body.predictedDate = last'.date \div 24 + 3)]_vars

\* C18: detectDuplicate returns isDuplicate = true exactly when some
\* non-cancelled invoice of the caller for the same client, with issueDate
\* within 30 days of the candidate's, scores a similarity of at least 75; the
\* returned similar invoices are such invoices of similarity at least 30, at
\* most 5 of them, the highest-scoring ones, in non-increasing order.
C18_DuplicateFlagAndTopFive ==
    [][(last'.op = "detectDuplicate" /\ last'.code = 200)
          => LET near == {id \in Ids :
                            /\ Exists(id) /\ invoices[id].userId = last'.user
                            /\ invoices[id].clientId = last'.client
                            /\ invoices[id].status # "cancelled"
                            /\ Abs(invoices[id].issueDate * 24 - last'.date) <= 30 * 24}
                 sim(id) == Similarity(id, last'.amount, last'.date, last'.items)
                 list == last'.body.similarInvoices
                 listed == {list[i].id : i \in 1..Len(list)}
             IN /\ last'.body.isDuplicate <=> \E id \in near : sim(id) >= 75
                /\ Len(list) <= 5
                /\ \A i \in 1..Len(list) :
                      /\ list[i].id \in near
                      /\ list[i].similarity = sim(list[i].id)
                      /\ list[i].similarity >= 30
                /\ \A i, j \in 1..Len(list) : i < j =>
                      (list[i].id # list[j].id /\ list[i].similarity >= list[j].similarity)
                /\ \A id \in near \ listed : sim(id) >= 30 =>
                      (Len(list) = 5 /\ \A i \in 1..Len(list) : list[i].similarity >= sim(id))]_vars

\* C19: two recordPayment requests on one invoice are not serialized: a request
\* is accepted or refused on the sum of payments it read, whatever has been
\* written since, so two requests that both read before either writes are both
\* accepted, and the sum of the invoice's payments can exceed invoice.total.
C19_AcceptedOnSumRead ==
    [][\A p \in Procs :
          (/\ inflight[p].pc = "pay"
           /\ inflight[p].at = "create"
           /\ inflight'[p] # inflight[p])
             => LET r == inflight[p]
                IN IF r.read + r.amount <= r.total
                   THEN payments'[r.id] = Append(payments[r.id], r.amount)
                   ELSE payments' = payments /\ last'.code = 400]_vars

C19_Witness ==
    /\ \A p \in Procs : inflight[p] = Idle
    /\ last.op = "recordPayment" /\ last.code = 201
    /\ Len(payments[last.id]) = 2
    /\ \A i \in 1..2 : payments[last.id][i] <= invoices[last.id].total
    /\ PaidSum(last.id) > invoices[last.id].total

\* C20: of two processOnlinePayment requests on one unpaid invoice, with nothing
\* else in between, at most one creates a payment, whatever the interleaving of
\* their steps: the invoice never has more than one payment, and never more
\* paid than its total.
C20_OneOnlinePayment ==
    \A id \in Ids : Len(payments[id]) <= 1 /\ (Exists(id) => PaidSum(id) <= invoices[id].total)

\* C21: a user's invoiceCounter never decreases; it changes exactly in a
\* duplicateInvoice of that user answered 201, then by exactly 1 and together
\* with the new invoice; a duplicateInvoice answered otherwise creates nothing.
C21_CounterStepsWithDuplicate ==
    [][\A u \in Users :
          LET duplicated == /\ last'.op = "duplicateInvoice" /\ last'.code = 201
                            /\ last'.user = u
          IN /\ invoiceCounter'[u] >= invoiceCounter[u]
             /\ (invoiceCounter'[u] # invoiceCounter[u]) <=> duplicated
             /\ duplicated =>
                   /\ invoiceCounter'[u] = invoiceCounter[u] + 1
                   /\ ~Exists(last'.made)
                   /\ invoices'[last'.made] # NoInvoice
                   /\ invoices'[last'.made].userId = u
                   /\ \A id \in Ids \ {last'.made} : invoices'[id] = invoices[id]
             /\ (last'.op = "duplicateInvoice" /\ last'.code # 201)
                   => invoices' = invoices]_vars

C21_Witness ==
    /\ last.op = "duplicateInvoice" /\ last.code = 201
    /\ invoiceCounter[last.user] = 2
    /\ Exists(last.made) /\ invoices[last.made].userId = last.user
    /\ \E u \in Users : u # last.user /\ invoiceCounter[u] = 0

\* C22: an accepted recordPayment after which the invoice's payments still sum
\* to more than 0.01 less than invoice.total appends the payment and changes
\* no invoice: status, items and totals stay as they were.
C22_PartialPaymentKeepsStatus ==
    [][(/\ last'.op = "recordPayment" /\ last'.code = 201
        /\ invoices[last'.id].total - SumSeq(payments'[last'.id]) > Tolerance)
          => /\ payments' = [payments EXCEPT ![last'.id] = Append(@, last'.amount)]
             /\ invoices' = invoices]_vars

C22_Witness ==
    /\ last.op = "recordPayment" /\ last.code = 201
    /\ invoices[last.id].status = "overdue"
    /\ payments[last.id] = <<last.amount>>
    /\ invoices[last.id].total - PaidSum(last.id) > Tolerance

\* C23: a reminder (remind, or send-email of type reminder) on an invoice of
\* the caller is accepted exactly when its status is sent or overdue; accepted,
\* it raises reminderCount by exactly 1 and changes nothing else; rejected, it
\* changes nothing.
C23_ReminderSentOrOverdueOnly ==
    [][(/\ \/ last'.op = "remind"
           \/ last'.op = "sendEmail" /\ last'.type = "reminder"
        /\ Owned(last'.user, last'.id))
          => LET id == last'.id
             IN /\ payments' = payments
                /\ IF invoices[id].status \in {"sent", "overdue"}
                   THEN /\ last'.code = 200
                        /\ invoices' = [invoices EXCEPT ![id].reminderCount = @ + 1]
                   ELSE /\ last'.code = 400
                        /\ invoices' = invoices]_vars

C23_Witness ==
    /\ last.op = "sendEmail" /\ last.type = "reminder" /\ last.code = 200
    /\ invoices[last.id].status = "overdue"
    /\ invoices[last.id].reminderCount = 1

\* C24: for a client with payment history, the predictedDate returned by
\* predictPaymentDate is not before dueDate, and the returned risk is low
\* exactly when predictedDate is on or before dueDate, medium exactly when it
\* is 1 to 14 days after dueDate, and high otherwise.
C24_RiskFollowsPredictedDate ==
    [][(/\ last'.op = "predictPaymentDate" /\ last'.code = 200
        /\ last'.date > 0
        /\ \E id \in PaidInvoicesOf(last'.user, last'.client) : payments[id] # <<>>)
          => LET late == last'.body.predictedDate - last'.date \div 24
                 risk == last'.body.riskLevel
             IN /\ late >= 0
                /\ risk = "low" <=> late <= 0
                /\ risk = "medium" <=> (late > 0 /\ late <= 14)
                /\ risk = "high" <=> late > 14]_vars

\* C25: in every reachable state an invoice whose status is paid has payments
\* summing to its total within 0.01.
C25_PaidMeansFullyPaid ==
    \A id \in Ids :
        (Exists(id) /\ invoices[id].status = "paid")
            => Abs(PaidSum(id) - invoices[id].total) < Tolerance

\* C26: of two createInvoice requests of one user that have both read the last
\* invoice before either inserts, the one that inserts first gets a number
\* different from the number the other one goes on to insert.
C26_InterleavedCreatesDiffer ==
    [][\A p, q \in Procs :
          (/\ p # q
           /\ inflight[p].pc = "create" /\ inflight[q].pc = "create"
           /\ inflight[p].user = inflight[q].user
           /\ inflight'[p] = Idle /\ last'.code = 201)
             => invoices'[last'.made].number # inflight[q].number]_vars

\* C27: in every state another request can observe, also between the steps
\* of an updateInvoice that replaces the items and after one that failed, the
\* stored subtotal of an invoice is the sum of the amounts of its stored items.
C27_ItemsMatchSubtotal ==
    \A id \in Ids :
        Exists(id) => invoices[id].subtotal = Subtotal(invoices[id].items)

\* C28: in every reachable state the client an invoice refers to is a client
\* of the user who owns the invoice.
C28_ClientOfSameUser ==
    \A id \in Ids :
        Exists(id) => clients[invoices[id].clientId] = invoices[id].userId

\* C29: no reminder is lost: every reminder action that is accepted (answered
\* 200), also one whose steps interleave with another reminder request on the
\* same invoice, leaves reminderCount one higher than it was.
C29_NoReminderLost ==
    [][\A p \in Procs :
          (/\ inflight[p].pc = "reminder"
           /\ inflight'[p] = Idle /\ last'.code = 200)
             => invoices'[inflight[p].id].reminderCount
                  = invoices[inflight[p].id].reminderCount + 1]_vars

\* the two lists hold the same items (description, quantity, rate), in any order
SameItems(stored, items) ==
    /\ Len(stored) = Len(items)
    /\ \E f \in [1..Len(items) -> 1..Len(items)] :
          /\ \A i, j \in 1..Len(items) : i # j => f[i] # f[j]
          /\ \A i \in 1..Len(items) :
                /\ stored[f[i]].description = items[i].description
                /\ stored[f[i]].quantity = items[i].quantity
                /\ stored[f[i]].rate = items[i].rate

\* C30: a detectDuplicate candidate with the client, total, issueDate and item
\* list of a non-cancelled invoice of the caller that has at least one item
\* scores at least 75 against that invoice and isDuplicate is true; every
\* similarity computed lies between 0 and 100.
C30_SameInvoiceIsDuplicate ==
    [][(last'.op = "detectDuplicate" /\ last'.code = 200)
          => LET sim(id) == Similarity(id, last'.amount, last'.date, last'.items)
                 list == last'.body.similarInvoices
             IN /\ \A id \in Ids :
                      (/\ Exists(id) /\ invoices[id].userId = last'.user
                       /\ invoices[id].clientId = last'.client
                       /\ invoices[id].status # "cancelled"
                       /\ invoices[id].items # <<>>
                       /\ invoices[id].total = last'.amount
                       /\ Instant(invoices[id].issueDate) = last'.date
                       /\ SameItems(invoices[id].items, last'.items))
                         => (sim(id) >= 75 /\ last'.body.isDuplicate)
                /\ \A id \in Ids : Exists(id) => (sim(id) >= 0 /\ sim(id) <= 100)
                /\ \A i \in 1..Len(list) :
                      list[i].similarity >= 0 /\ list[i].similarity <= 100]_vars

C30_Witness ==
    /\ last.op = "detectDuplicate" /\ last.code = 200
    /\ last.body.isDuplicate
    /\ \E id \in Ids :
          /\ Exists(id) /\ invoices[id].userId = last.user
          /\ invoices[id].status # "cancelled"
          /\ invoices[id].clientId = last.client
          /\ invoices[id].total = last.amount
          /\ Instant(invoices[id].issueDate) = last.date
          /\ Len(invoices[id].items) = 2
          /\ SameItems(invoices[id].items, last.items)
          /\ invoices[id].items[1].description # invoices[id].items[2].description
          /\ Normalise(invoices[id].items[1].description)
               = Normalise(invoices[id].items[2].description)
          /\ Similarity(id, last.amount, last.date, last.items) < 100

\* C9: a sweepOverdue run directly after a sweepOverdue of the same user, with
\* no clock tick and no other operation in between, changes no invoice and
\* returns count 0.
C9_SecondSweepIdle ==
    [][(/\ last.op = "sweepOverdue" /\ last'.op = "sweepOverdue"
        /\ last'.user = last.user)
          => (invoices' = invoices /\ last'.count = 0)]_vars

C9_Witness ==
    /\ last.op = "sweepOverdue" /\ last.prior > 0 /\ last.count = 0
    /\ \E id \in Ids : /\ Owned(last.user, id)
                       /\ invoices[id].status = "overdue"
                       /\ invoices[id].dueDate < now

\* C10: sweepOverdue(userId) sets to overdue exactly that user's invoices whose
\* status is sent and whose dueDate is before now, changes nothing else of
\* them, returns the number of invoices it changed, and leaves every other
\* invoice (another status, a dueDate not before now, another user) and every
\* payment unchanged.
C10_SweepExact ==
    [][last'.op = "sweepOverdue"
          => LET u == last'.user
                 due == {id \in Ids : /\ Exists(id)
                                      /\ invoices[id].userId = u
                                      /\ invoices[id].status = "sent"
                                      /\ invoices[id].dueDate < now}
             IN /\ \A id \in due :
                      invoices'[id] = [invoices[id] EXCEPT !.status = "overdue"]
                /\ \A id \in Ids \ due : invoices'[id] = invoices[id]
                /\ last'.count = Cardinality({id \in Ids : invoices'[id] # invoices[id]})
                /\ payments' = payments]_vars

C10_Witness ==
    /\ last.op = "sweepOverdue" /\ last.count = 1
    /\ \E a, c \in Ids :
          /\ Owned(last.user, a) /\ invoices[a].status = "overdue"
          /\ invoices[a].dueDate < now
          /\ Exists(c) /\ invoices[c].userId # last.user
          /\ invoices[c].status = "sent" /\ invoices[c].dueDate < now
====
